---- MODULE Spec2Model ----
(***************************************************************************)
(* The game loop of src/main.cpp: the key callback, and one iteration of   *)
(* the while loop of main (draw, animation clocks, death counters, bullet  *)
(* simulation, player movement, fire) as the action Frame.                 *)
(*                                                                         *)
(* size_t values are held by their two's-complement representatives: an    *)
(* integer v >= 0 stands for v, an integer v < 0 for 2^64 + v.  Addition   *)
(* and subtraction modulo 2^64 are then integer addition and subtraction   *)
(* (no value of the model comes near 2^63), and the unsigned order is ULt. *)
(***************************************************************************)
EXTENDS Integers, Sequences, FiniteSets, TLC

\* ------------------------------------------------------------------ bounds

\* Capacity of the bullet array (128 in the source), scaled so that it fills.
GAME_MAX_BULLETS == 2
\* Board height of the scaled board of SpecShoot (256 in the source).
SmallHeight == 59
\* y of the lowest alien row on the scaled board (128 in the source).
SmallAlienY == 42
\* frame_duration of the animations on the scaled board (10 in the source).
SmallFrameDuration == 1
\* Space presses delivered between two iterations.
MaxPolled == 1
\* Cap of the history counters of death_hist.
MaxDeadFrames == 11
\* Iterations the player walks left before the flights of SpecFlight.
FlightWalk == 41
\* Board height and y of the lowest alien row of the scaled board of SpecLive.
LiveHeight == 46
LiveAlienY == 44
\* Board width and height of the scaled board of SpecPlay.
PlayWidth == 19
PlayHeight == 42
\* Largest width and height of the buffers of SpecDraw.
MaxBufferSide == 2
\* Largest width and height of the sprites of SpecDraw and SpecOverlap.
MaxSpriteSide == 2
\* Largest x and y of the rectangles of SpecOverlap.
MaxPosition == 3

\* --------------------------------------------------------------- constants

ALIEN_DEAD == 0

Keys == {"ESCAPE", "RIGHT", "LEFT", "SPACE"}
KeyActions == {"PRESS", "RELEASE", "REPEAT"}

player_sprite == [width |-> 11, height |-> 7]
bullet_sprite == [width |-> 1, height |-> 3]
alien_death_sprite == [width |-> 13, height |-> 7]
alien_sprites ==
    [i \in 0..5 |-> IF i \in {0, 1} THEN [width |-> 8, height |-> 8]
                    ELSE IF i \in {2, 3} THEN [width |-> 11, height |-> 8]
                    ELSE [width |-> 12, height |-> 8]]

\* ------------------------------------------------------- unsigned (size_t)

ULt(a, b) == IF (a >= 0) = (b >= 0) THEN a < b ELSE a >= 0
UGe(a, b) == ~ULt(a, b)
UGt(a, b) == ULt(b, a)
ULe(a, b) == ~ULt(b, a)

\* ------------------------------------------------------------------- state

VARIABLES
    game,                \* struct Game: width, height, num_aliens, num_bullets,
                         \*   aliens, player, bullets
    death_counters,      \* uint8_t death_counters[num_aliens]
    alien_animation,     \* SpriteAnimation alien_animation[3]
    move_dir,            \* global int move_dir
    fire_pressed,        \* global bool fire_pressed
    game_running,        \* global bool game_running
    window_should_close, \* GLFW's close flag of the window
    key_down,            \* the keys the input source holds pressed
    pc,                  \* "start": before the first iteration, no event
                         \*   polled yet; "loop": in the while loop, at
                         \*   glfwPollEvents; "done": past the loop;
                         \*   "undefined": after undefined behaviour, where
                         \*   the model follows the program no further
    polled,              \* history: Space presses delivered since the last
                         \*   iteration, and whether a release was
    death_hist,          \* history: per alien, the iterations begun since it
                         \*   died (frames) and those that drew its death
                         \*   sprite (draws)
    bullet_age,          \* history: per bullet slot, the iterations run
                         \*   since the spawn of the bullet in it
    watched,             \* history: per bullet slot, whether the bullet in
                         \*   it is the one an observer follows from a
                         \*   moment of its flight to its removal
    step,                \* history: what the last iteration did
    call                 \* a call of a helper function on its own: its
                         \*   arguments and what it did (SpecDraw,
                         \*   SpecOverlap); NoCall in the game loop

vars == <<game, death_counters, alien_animation, move_dir, fire_pressed,
          game_running, window_should_close, key_down, pc, polled,
          death_hist, bullet_age, watched, step, call>>

\* A slot of game.bullets at or above num_bullets.  Between iterations such a
\* slot is dead storage: the loop reads a slot at or above the count only
\* right after the removal that vacated it, in the same iteration, and the
\* fire phase writes all three fields before the count covers the slot.
Vacant == [x |-> 0, y |-> 0, dir |-> 0]

\* The history of an iteration: the bullet count it began with, the bullets
\* it removed by the bounds (oob) and by a hit (hits), the most aliens one
\* scan of the hit loop killed, the tests the hit loop made after a hit of the
\* same scan, the bullets it spawned, the count its fire phase tested, the
\* player's x before the move, the player_move_dir of the move, the
\* undefined behaviour it ran into ("none", "bullets" or "animation"), and
\* the bullets its bullet loop left in the array without moving them
\* (unmoved) or after moving them more than once (moved_again).
NoStep == [count_before |-> 0, oob |-> 0, hits |-> 0, max_kills |-> 0,
           after_hit |-> 0, spawned |-> 0, count_at_fire |-> 0,
           x_before |-> 0, dir |-> 0, ub |-> "none", unmoved |-> 0,
           moved_again |-> 0]

\* No helper function is called on its own.
NoCall == [op |-> "none"]

\* ------------------------------------------------------------ construction

\* AlienTypeOfRow with the types counted up from row 0.
AlienTypeOfRowCountedUp(yi) == yi \div 2 + 1

\* The type the grid loop gives row yi.
AlienTypeOfRow(yi) == (5 - yi) \div 2 + 1

\* Alien yi * 12 + xi of the grid, the lowest row at alien_y.
InitAlien(ai, alien_y) ==
    LET yi == ai \div 12
        xi == ai % 12
        type == AlienTypeOfRow(yi)
        sprite == alien_sprites[2 * (type - 1)]
    IN [x |-> 16 * xi + 20 + (alien_death_sprite.width - sprite.width) \div 2,
        y |-> 17 * yi + alien_y,
        type |-> type]

InitGame(buffer_width, buffer_height, alien_y) ==
    [width |-> buffer_width,
     height |-> buffer_height,
     num_aliens |-> 60,
     num_bullets |-> 0,
     aliens |-> [ai \in 0..59 |-> InitAlien(ai, alien_y)],
     player |-> [x |-> buffer_width \div 2, y |-> 32, life |-> 3],
     bullets |-> [bi \in 0..(GAME_MAX_BULLETS - 1) |-> Vacant]]

InitAnimation(frame_duration) ==
    [i \in 0..2 |-> [loop |-> TRUE, num_frames |-> 2,
                     frame_duration |-> frame_duration, time |-> 0,
                     frames |-> [k \in 0..1 |-> 2 * i + k]]]

\* The game loop's variables after construction.
InitLoop(buffer_width, buffer_height, alien_y, frame_duration) ==
    /\ game = InitGame(buffer_width, buffer_height, alien_y)
    /\ death_counters = [ai \in 0..59 |-> 10]
    /\ alien_animation = InitAnimation(frame_duration)
    /\ move_dir = 0
    /\ fire_pressed = FALSE
    /\ game_running = TRUE
    /\ window_should_close = FALSE
    /\ key_down = {}
    /\ pc = "start"
    /\ polled = [presses |-> 0, released |-> FALSE]
    /\ death_hist = [ai \in 0..59 |-> [draws |-> 0, frames |-> 0]]
    /\ bullet_age = [bi \in 0..(GAME_MAX_BULLETS - 1) |-> 0]
    /\ watched = [bi \in 0..(GAME_MAX_BULLETS - 1) |-> FALSE]
    /\ step = NoStep

InitWith(buffer_width, buffer_height, alien_y, frame_duration) ==
    /\ InitLoop(buffer_width, buffer_height, alien_y, frame_duration)
    /\ call = NoCall

\* The program as built: the 224 x 256 board.
Init == InitWith(224, 256, 128, 10)

\* The scaled board: the same grid moved down to the player, a lower ceiling
\* and a faster animation clock.
InitShoot == InitWith(224, SmallHeight, SmallAlienY, SmallFrameDuration)

\* The low board: a bullet of the player at the start position reaches the
\* lowest alien row with its second move and the ceiling with its fourth.
InitLive == InitWith(224, LiveHeight, LiveAlienY, SmallFrameDuration)

\* The narrow board: the grid to the right of it, the ceiling two moves above
\* the player's bullets.
InitPlay == InitWith(PlayWidth, PlayHeight, SmallAlienY, SmallFrameDuration)

\* The program as built after its first iteration and FlightWalk more with
\* LEFT held, LEFT released again: the player stands where its bullets pass
\* between two alien columns.  It is a state Spec reaches.
InitFlight ==
    /\ game = [InitGame(224, 256, 128) EXCEPT
                  !.player.x = @ - 2 * FlightWalk]
    /\ death_counters = [ai \in 0..59 |-> 10]
    /\ alien_animation =
          [i \in 0..2 |-> [InitAnimation(10)[i] EXCEPT
                              !.time = (1 + FlightWalk) % 20]]
    /\ move_dir = 0
    /\ fire_pressed = FALSE
    /\ game_running = TRUE
    /\ window_should_close = FALSE
    /\ key_down = {}
    /\ pc = "loop"
    /\ polled = [presses |-> 0, released |-> FALSE]
    /\ death_hist = [ai \in 0..59 |-> [draws |-> 0, frames |-> 0]]
    /\ bullet_age = [bi \in 0..(GAME_MAX_BULLETS - 1) |-> 0]
    /\ watched = [bi \in 0..(GAME_MAX_BULLETS - 1) |-> FALSE]
    /\ step = [NoStep EXCEPT !.x_before = game.player.x + 2, !.dir = -2]
    /\ call = NoCall

\* ------------------------------------------------------------ key_callback

\* move_dir_after with the release of LEFT counted like its press.
move_dir_after_left_stuck(key, action) ==
    CASE key = "RIGHT" /\ action = "PRESS" -> move_dir + 1
      [] key = "RIGHT" /\ action = "RELEASE" -> move_dir - 1
      [] key = "LEFT" /\ action = "PRESS" -> move_dir - 1
      [] key = "LEFT" /\ action = "RELEASE" -> move_dir - 1
      [] OTHER -> move_dir

move_dir_after(key, action) ==
    CASE key = "RIGHT" /\ action = "PRESS" -> move_dir + 1
      [] key = "RIGHT" /\ action = "RELEASE" -> move_dir - 1
      [] key = "LEFT" /\ action = "PRESS" -> move_dir - 1
      [] key = "LEFT" /\ action = "RELEASE" -> move_dir + 1
      [] OTHER -> move_dir

\* fire_pressed_after with the flag set by the press.
fire_pressed_after_press(key, action) ==
    IF key = "SPACE" /\ action = "PRESS" THEN TRUE ELSE fire_pressed

fire_pressed_after(key, action) ==
    IF key = "SPACE" /\ action = "RELEASE" THEN TRUE ELSE fire_pressed

\* game_running_after with the release of ESCAPE setting the flag again.
game_running_after_release(key, action) ==
    CASE key = "ESCAPE" /\ action = "PRESS" -> FALSE
      [] key = "ESCAPE" /\ action = "RELEASE" -> TRUE
      [] OTHER -> game_running

game_running_after(key, action) ==
    IF key = "ESCAPE" /\ action = "PRESS" THEN FALSE ELSE game_running

\* The input source delivers a press of a released key, a release or a repeat
\* of a held one; glfwPollEvents runs the callback once per event.
key_callback(key, action) ==
    /\ pc = "loop"
    /\ IF action = "PRESS" THEN key \notin key_down ELSE key \in key_down
    /\ key = "SPACE" /\ action = "PRESS" => polled.presses < MaxPolled
    /\ key_down' = CASE action = "PRESS" -> key_down \cup {key}
                     [] action = "RELEASE" -> key_down \ {key}
                     [] OTHER -> key_down
    /\ move_dir' = move_dir_after(key, action)
    /\ fire_pressed' = fire_pressed_after(key, action)
    /\ game_running' = game_running_after(key, action)
    /\ polled' = CASE key = "SPACE" /\ action = "PRESS" ->
                        [polled EXCEPT !.presses = @ + 1]
                   [] key = "SPACE" /\ action = "RELEASE" ->
                        [polled EXCEPT !.released = TRUE]
                   [] OTHER -> polled
    /\ UNCHANGED <<game, death_counters, alien_animation, window_should_close,
                   pc, death_hist, bullet_age, watched, step, call>>

\* ------------------------------------------------------------------- draw

\* A history counter, one more when count holds, up to its cap.
Capped(n, count) == IF count /\ n < MaxDeadFrames THEN n + 1 ELSE n

\* DrawsDeathSprite without the test of the death counter.
DrawsDeathSpriteUncounted(ai) == game.aliens[ai].type = ALIEN_DEAD

\* Draw Aliens: whether the loop draws the death sprite for alien ai.
DrawsDeathSprite(ai) ==
    /\ death_counters[ai] # 0
    /\ game.aliens[ai].type = ALIEN_DEAD

\* Draw Aliens: the frame of the animation an alive alien is drawn with.
DrawnFrame(ai) ==
    LET animation == alien_animation[game.aliens[ai].type - 1]
    IN animation.time \div animation.frame_duration

\* --------------------------------------------------------- simulation step

\* AdvanceAnimation wrapping one tick late, with > for ==.
AdvanceAnimationLate(a) ==
    LET t == a.time + 1
    IN [a EXCEPT !.time = IF t > a.num_frames * a.frame_duration THEN 0 ELSE t]

\* Render animations every iteration.
AdvanceAnimation(a) ==
    LET t == a.time + 1
    IN [a EXCEPT !.time = IF t = a.num_frames * a.frame_duration THEN 0 ELSE t]

\* DecayCounter without the test of the counter: the uint8_t wraps below 0.
DecayCounterUnguarded(alien, counter) ==
    IF alien.type = ALIEN_DEAD THEN (counter - 1) % 256 ELSE counter

\* Alien simulation: the death counter of one alien after the decay.
DecayCounter(alien, counter) ==
    IF alien.type = ALIEN_DEAD /\ counter # 0 THEN counter - 1 ELSE counter

\* sprite_overlap_check with >= for > in the second comparison.
sprite_overlap_check_touching(sp_a, x_a, y_a, sp_b, x_b, y_b) ==
    /\ ULt(x_a, x_b + sp_b.width)
    /\ UGe(x_a + sp_a.width, x_b)
    /\ ULt(y_a, y_b + sp_b.height)
    /\ UGt(y_a + sp_a.height, y_b)

sprite_overlap_check(sp_a, x_a, y_a, sp_b, x_b, y_b) ==
    /\ ULt(x_a, x_b + sp_b.width)
    /\ UGt(x_a + sp_a.width, x_b)
    /\ ULt(y_a, y_b + sp_b.height)
    /\ UGt(y_a + sp_a.height, y_b)

\* game.bullets[bi] = game.bullets[game.num_bullets - 1]; --game.num_bullets
SwapRemove(g, bi) ==
    [g EXCEPT !.bullets[bi] = g.bullets[g.num_bullets - 1],
              !.num_bullets = @ - 1]

\* The history of the slots after SwapRemove(g, bi): the slot takes the
\* history of the last bullet with the last bullet.
SwapHistory(h, g, bi) == [h EXCEPT ![bi] = h[g.num_bullets - 1]]

\* OutOfBounds with > for >= at the upper bound.
OutOfBoundsAbove(g, y) == UGt(y, g.height) \/ ULt(y, bullet_sprite.height)

\* Whether the bullet's moved y leaves the board.
OutOfBounds(g, y) == UGe(y, g.height) \/ ULt(y, bullet_sprite.height)

\* The sprite the hit loop tests alien ai with.
TestedSprite(s, ai) ==
    LET animation == s.anim[s.game.aliens[ai].type - 1]
        current_frame == animation.time \div animation.frame_duration
    IN alien_sprites[animation.frames[current_frame]]

\* TestsAlien without the test of the alien's type.
TestsAnyAlien(alien) == TRUE

\* Whether the hit loop tests the alien (it passes over a dead one).
TestsAlien(alien) == alien.type # ALIEN_DEAD

\* The overlap test of the hit loop for bullet slot bi and alien ai.
Overlaps(s, bi, ai) ==
    sprite_overlap_check(bullet_sprite, s.game.bullets[bi].x,
                         s.game.bullets[bi].y, TestedSprite(s, ai),
                         s.game.aliens[ai].x, s.game.aliens[ai].y)

\* KillAlien removing the alien from the array the way bullets are removed.
KillAlienRemoved(g, ai, alien_sprite) ==
    [g EXCEPT !.aliens[ai] = g.aliens[g.num_aliens - 1],
              !.num_aliens = @ - 1]

\* The alien marked dead, its x recentred for the death sprite.
KillAlien(g, ai, alien_sprite) ==
    [g EXCEPT !.aliens[ai].type = ALIEN_DEAD,
              !.aliens[ai].x = @ - (alien_death_sprite.width
                                    - alien_sprite.width) \div 2]

\* Where the hit loop goes on after a hit on alien ai: the continue is the
\* alien loop's, so with the next alien.
AfterHit(g, ai) == ai + 1

\* The least of a non-empty set of numbers.
Lowest(S) == CHOOSE a \in S : \A o \in S : a <= o

\* The hit loop at alien first, the first of the scan from ai on whose test
\* overlaps or reads outside alien_animation; tests are the aliens the scan
\* would test.
RECURSIVE HitLoop(_, _, _, _)
HitAt(s, bi, ai, kills, first, tests) ==
    LET made == {a \in tests : a <= first}
        tested == [s EXCEPT !.st.after_hit =
                                IF kills > 0 THEN @ + Cardinality(made) ELSE @]
    IN  IF s.game.aliens[first].type = ALIEN_DEAD
        THEN [tested EXCEPT !.ub = "animation"]
        ELSE
        LET dead == KillAlien(tested.game, first, TestedSprite(s, first))
        IN  IF dead.num_bullets = 0
            THEN [tested EXCEPT !.ub = "bullets",
                                !.game = [dead EXCEPT !.num_bullets = @ - 1]]
            ELSE HitLoop([tested EXCEPT
                             !.game = SwapRemove(dead, bi),
                             !.slots = SwapHistory(@, dead, bi),
                             !.st.hits = @ + 1,
                             !.st.max_kills =
                                 IF kills + 1 > @ THEN kills + 1 ELSE @],
                         bi, AfterHit(dead, first), kills + 1)

\* The hit loop for slot bi from alien ai on, kills aliens already hit in
\* this scan.  s is what the bullet loop threads: the game, the animations
\* (read), the history of the step, the history of the slots (the age of the
\* bullet in each slot and the moves this iteration made of it), and ub,
\* which names the undefined
\* behaviour the step ran into: "bullets" when a removal runs on an empty
\* array (game.bullets[SIZE_MAX] is read and the count wraps), "animation"
\* when a test reads alien_animation[-1], the animation of type 0.  The loop
\* runs to the first alien it tests and finds overlapping, counting the
\* tests it makes after a hit, applies the hit and goes on.
HitLoop(s, bi, ai, kills) ==
    IF s.ub # "none" \/ ~ULt(ai, s.game.num_aliens) THEN s
    ELSE
    LET rest == ai..(s.game.num_aliens - 1)
        tests == {a \in rest : TestsAlien(s.game.aliens[a])}
        stray == {a \in tests : s.game.aliens[a].type = ALIEN_DEAD}
        found == {a \in tests \ stray : Overlaps(s, bi, a)}
    IN  IF stray \cup found = {}
        THEN [s EXCEPT !.st.after_hit =
                           IF kills > 0 THEN @ + Cardinality(tests) ELSE @]
        ELSE HitAt(s, bi, ai, kills, Lowest(stray \cup found), tests)

RECURSIVE BulletLoop(_, _)
BulletLoop(s, bi) ==
    IF s.ub # "none" \/ ~ULt(bi, s.game.num_bullets) THEN s
    ELSE
    LET b == s.game.bullets[bi]
        moved == [s EXCEPT !.game.bullets[bi].y = b.y + b.dir,
                           !.slots[bi].moves = @ + 1]
    IN  IF OutOfBounds(moved.game, moved.game.bullets[bi].y)
        THEN BulletLoop([moved EXCEPT !.game = SwapRemove(moved.game, bi),
                                      !.slots = SwapHistory(@, moved.game, bi),
                                      !.st.oob = @ + 1], bi)
        ELSE BulletLoop(HitLoop(moved, bi, 0, 0), bi + 1)

\* Player movement: the player's x after the move by player_move_dir.
PlayerMove(g, player_move_dir) ==
    IF player_move_dir = 0 THEN g.player.x
    ELSE IF UGe(g.player.x + player_sprite.width + player_move_dir, g.width)
    THEN g.width - player_sprite.width - player_move_dir
    ELSE IF ULe(g.player.x + player_move_dir, 0)
    THEN 0
    ELSE g.player.x + player_move_dir

\* Spawns without the test of the capacity.
SpawnsUncapped(g, fire) == fire

\* Process bullet events: whether the fire phase spawns a bullet.
Spawns(g, fire) == fire /\ ULt(g.num_bullets, GAME_MAX_BULLETS)

\* NewBullet at the player's x, without half the sprite's width.
NewBulletUncentred(g) ==
    [x |-> g.player.x,
     y |-> g.player.y + player_sprite.height,
     dir |-> 2]

\* NewBullet with dir 0.
NewBulletStill(g) ==
    [x |-> g.player.x + player_sprite.width \div 2,
     y |-> g.player.y + player_sprite.height,
     dir |-> 0]

\* NewBullet with dir 1.
NewBulletSlow(g) ==
    [x |-> g.player.x + player_sprite.width \div 2,
     y |-> g.player.y + player_sprite.height,
     dir |-> 1]

NewBullet(g) ==
    [x |-> g.player.x + player_sprite.width \div 2,
     y |-> g.player.y + player_sprite.height,
     dir |-> 2]

ProcessBulletEvents(g, fire) ==
    IF Spawns(g, fire)
    THEN [g EXCEPT !.bullets[g.num_bullets] = NewBullet(g),
                   !.num_bullets = @ + 1]
    ELSE g

\* FireAfterStep without the reset of the flag.
FireAfterStepKept(fire) == fire

\* fire_pressed after the fire phase.
FireAfterStep(fire) == FALSE

\* The slots at or above the count as dead storage.
Settle(g) ==
    [g EXCEPT !.bullets = [bi \in DOMAIN g.bullets |->
                              IF bi < g.num_bullets THEN g.bullets[bi]
                              ELSE Vacant]]

\* The age of a bullet one iteration on.  Ages are counted up to half the
\* board's height, more iterations than a flight of the board takes.
AgedOneIteration(age) ==
    IF age < game.height \div 2 THEN age + 1 ELSE age

\* One iteration of the while loop, up to glfwPollEvents.
Frame ==
    /\ pc \in {"start", "loop"}
    /\ ~window_should_close /\ game_running
    /\ \E anim \in {[i \in DOMAIN alien_animation |->
                          AdvanceAnimation(alien_animation[i])]} :
       \E s \in {BulletLoop([game |-> game, anim |-> anim,
                              st |-> [NoStep EXCEPT !.count_before =
                                                        game.num_bullets],
                              slots |-> [bi \in DOMAIN bullet_age |->
                                            [age |-> AgedOneIteration(
                                                         bullet_age[bi]),
                                             moves |-> 0,
                                             watched |-> watched[bi]]],
                              ub |-> "none"], 0)} :
       \E g1 \in {[s.game EXCEPT !.player.x =
                                    PlayerMove(s.game, 2 * move_dir)]} :
       \E g2 \in {ProcessBulletEvents(g1, fire_pressed)} :
           /\ death_hist' =
                 [ai \in DOMAIN death_hist |->
                     [draws |-> Capped(death_hist[ai].draws,
                                       DrawsDeathSprite(ai)),
                      frames |-> Capped(death_hist[ai].frames,
                                        game.aliens[ai].type = ALIEN_DEAD)]]
           /\ alien_animation' = anim
           /\ death_counters' =
                 [ai \in DOMAIN death_counters |->
                     DecayCounter(game.aliens[ai], death_counters[ai])]
           /\ IF s.ub # "none"
              THEN /\ pc' = "undefined"
                   /\ game' = s.game
                   /\ step' = [s.st EXCEPT !.ub = s.ub]
                   /\ UNCHANGED <<fire_pressed, bullet_age, watched>>
              ELSE /\ pc' = "loop"
                   /\ game' = Settle(g2)
                   /\ step' = [s.st EXCEPT
                                  !.spawned = g2.num_bullets - g1.num_bullets,
                                  !.count_at_fire = g1.num_bullets,
                                  !.x_before = game.player.x,
                                  !.dir = 2 * move_dir,
                                  !.unmoved = Cardinality(
                                      {bi \in DOMAIN s.slots :
                                          /\ bi < g1.num_bullets
                                          /\ s.slots[bi].moves = 0}),
                                  !.moved_again = Cardinality(
                                      {bi \in DOMAIN s.slots :
                                          /\ bi < g1.num_bullets
                                          /\ s.slots[bi].moves > 1})]
                   /\ bullet_age' =
                         [bi \in DOMAIN bullet_age |->
                             IF bi < g1.num_bullets THEN s.slots[bi].age
                             ELSE 0]
                   /\ watched' =
                         [bi \in DOMAIN watched |->
                             bi < g1.num_bullets /\ s.slots[bi].watched]
                   /\ fire_pressed' = FireAfterStep(fire_pressed)
    /\ polled' = [presses |-> 0, released |-> FALSE]
    /\ UNCHANGED <<move_dir, game_running, window_should_close, key_down,
                   call>>

\* The window's close request, seen by glfwPollEvents.
CloseRequest ==
    /\ pc = "loop"
    /\ ~window_should_close
    /\ window_should_close' = TRUE
    /\ UNCHANGED <<game, death_counters, alien_animation, move_dir,
                   fire_pressed, game_running, key_down, pc, polled,
                   death_hist, bullet_age, watched, step, call>>

\* The loop condition fails: the loop is left.
LoopExit ==
    /\ pc = "loop"
    /\ window_should_close \/ ~game_running
    /\ pc' = "done"
    /\ UNCHANGED <<game, death_counters, alien_animation, move_dir,
                   fire_pressed, game_running, window_should_close, key_down,
                   polled, death_hist, bullet_age, watched, step, call>>

\* The observer picks the bullet in slot bi to follow; it follows one bullet
\* at a time.  Nothing of the program changes.
Watch(bi) ==
    /\ pc = "loop"
    /\ bi < game.num_bullets
    /\ \A other \in DOMAIN watched : ~watched[other]
    /\ watched' = [watched EXCEPT ![bi] = TRUE]
    /\ UNCHANGED <<game, death_counters, alien_animation, move_dir,
                   fire_pressed, game_running, window_should_close, key_down,
                   pc, polled, death_hist, bullet_age, step, call>>

\* ------------------------------------------------------- helper functions

\* The pixels buffer_sprite_draw writes: for every opaque cell (xi, yi) of the
\* sprite whose sy and sx pass the two unsigned tests, the index
\* sy * buffer->width + sx.
DrawnIndices(buffer, sprite, x, y) ==
    {(sprite.height - 1 + y - yi) * buffer.width + (x + xi) :
        <<xi, yi>> \in
            {c \in (0..(sprite.width - 1)) \X (0..(sprite.height - 1)) :
                /\ sprite.data[c[2] * sprite.width + c[1]]
                /\ ULt(sprite.height - 1 + y - c[2], buffer.height)
                /\ ULt(x + c[1], buffer.width)}}

\* buffer->data after the call; every write stores color.
buffer_sprite_draw(buffer, sprite, x, y, color) ==
    [i \in DOMAIN buffer.data |->
        IF i \in DrawnIndices(buffer, sprite, x, y) THEN color
        ELSE buffer.data[i]]

\* The sprites of a bounded size with every mask.
SmallSprites ==
    UNION {[width : {w}, height : {h},
            data : [0..(w * h - 1) -> BOOLEAN]] :
           <<w, h>> \in (1..MaxSpriteSide) \X (1..MaxSpriteSide)}

\* The cleared buffers of a bounded size.
SmallBuffers ==
    {[width |-> w, height |-> h, data |-> [i \in 0..(w * h - 1) |-> "clear"]] :
        <<w, h>> \in (1..MaxBufferSide) \X (1..MaxBufferSide)}

\* The size_t positions tried: 0 up to past the buffer, and the last
\* MaxSpriteSide values of size_t (-1 stands for 2^64 - 1).
SmallCoordinates == (0 - MaxSpriteSide)..(MaxBufferSide + 1)

\* A call of buffer_sprite_draw about to run.
InitDraw ==
    /\ InitLoop(224, 256, 128, 10)
    /\ call \in [op : {"draw"}, buffer : SmallBuffers, sprite : SmallSprites,
                 x : SmallCoordinates, y : SmallCoordinates, color : {"red"},
                 returned : {FALSE}, outside : {FALSE}]

\* The call runs: buffer->data is written, outside tells whether an index
\* written lay outside the array.
Draw ==
    /\ call.op = "draw"
    /\ ~call.returned
    /\ call' = [call EXCEPT
                   !.buffer.data =
                       buffer_sprite_draw(call.buffer, call.sprite, call.x,
                                          call.y, call.color),
                   !.outside =
                       ~(DrawnIndices(call.buffer, call.sprite, call.x, call.y)
                           \subseteq DOMAIN call.buffer.data),
                   !.returned = TRUE]
    /\ UNCHANGED <<game, death_counters, alien_animation, move_dir,
                   fire_pressed, game_running, window_should_close, key_down,
                   pc, polled, death_hist, bullet_age, watched, step>>

\* The sprites of a bounded size with a mask all transparent or all opaque.
PlainSprites ==
    {[width |-> w, height |-> h, data |-> [i \in 0..(w * h - 1) |-> opaque]] :
        <<w, h, opaque>> \in
            (1..MaxSpriteSide) \X (1..MaxSpriteSide) \X BOOLEAN}

\* A call of sprite_overlap_check about to run.
InitOverlap ==
    /\ InitLoop(224, 256, 128, 10)
    /\ call \in [op : {"overlap"}, sp_a : PlainSprites, x_a : 0..MaxPosition,
                 y_a : 0..MaxPosition, sp_b : PlainSprites,
                 x_b : 0..MaxPosition, y_b : 0..MaxPosition,
                 returned : {FALSE}, result : {FALSE}]

\* The call runs and returns result.
Overlap ==
    /\ call.op = "overlap"
    /\ ~call.returned
    /\ call' = [call EXCEPT
                   !.result = sprite_overlap_check(call.sp_a, call.x_a,
                                                   call.y_a, call.sp_b,
                                                   call.x_b, call.y_b),
                   !.returned = TRUE]
    /\ UNCHANGED <<game, death_counters, alien_animation, move_dir,
                   fire_pressed, game_running, window_should_close, key_down,
                   pc, polled, death_hist, bullet_age, watched, step>>

\* ---------------------------------------------------------- specifications

\* The program with the move and quit keys.
Next ==
    \/ Frame
    \/ \E key \in {"LEFT", "RIGHT", "ESCAPE"}, action \in KeyActions :
          key_callback(key, action)
    \/ CloseRequest
    \/ LoopExit

Spec == Init /\ [][Next]_vars

\* The scaled board with the fire key.
NextShoot ==
    \/ Frame
    \/ \E action \in KeyActions : key_callback("SPACE", action)

SpecShoot == InitShoot /\ [][NextShoot]_vars

\* The fire key while no bullet is in flight and no fire is pending.
FireAlone(action) ==
    /\ game.num_bullets = 0
    /\ ~fire_pressed
    /\ key_callback("SPACE", action)

\* The 224 x 256 board with single fires from between two alien columns.
NextFlight ==
    \/ Frame
    \/ \E action \in KeyActions : FireAlone(action)

SpecFlight == InitFlight /\ [][NextFlight]_vars

\* The low board with the fire key and an observer of one bullet.
NextLive ==
    \/ NextShoot
    \/ \E bi \in DOMAIN watched : Watch(bi)

\* A step of Frame, told by the loop condition and by the animation clocks:
\* every iteration advances them and no other step of the program does.
FrameStep ==
    /\ pc \in {"start", "loop"}
    /\ ~window_should_close /\ game_running
    /\ alien_animation' = [i \in DOMAIN alien_animation |->
                               AdvanceAnimation(alien_animation[i])]

\* The loop keeps iterating: while the loop condition holds, the next
\* iteration does run.
SpecLive ==
    InitLive /\ [][NextLive]_vars /\ WF_alien_animation(FrameStep)

\* The narrow board with the move keys and the fire key.
NextPlay ==
    \/ Frame
    \/ \E key \in {"LEFT", "RIGHT", "SPACE"}, action \in KeyActions :
          key_callback(key, action)

SpecPlay == InitPlay /\ [][NextPlay]_vars

\* buffer_sprite_draw on small buffers.
SpecDraw == InitDraw /\ [][Draw]_vars

\* sprite_overlap_check on small rectangles.
SpecOverlap == InitOverlap /\ [][Overlap]_vars

\* ------------------------------------------------------------------ claims

Aliens == 0..59
Slots == 0..(GAME_MAX_BULLETS - 1)
ActiveSlots == {bi \in Slots : bi < game.num_bullets}
RightBound == game.width - player_sprite.width
IsDead(ai) == game.aliens[ai].type = ALIEN_DEAD
\* The aliens the last iteration killed: dead, and no iteration begun since.
NewlyDead == {ai \in Aliens : IsDead(ai) /\ death_hist[ai].frames = 0}
Least(a, b) == IF a < b THEN a ELSE b

\* C1: the player's x is within [0, boardWidth - playerSpriteWidth] in every
\* reachable state: never negative or wrapped, never above 213.
C1_PlayerInBounds ==
    /\ 0 <= game.player.x
    /\ game.player.x <= RightBound

\* C2: a move that would leave [0, boardWidth - playerWidth] snaps exactly to
\* the bound it violates: from an x inside the range, x + moveDelta < 0 gives
\* x = 0 and x + moveDelta > boardWidth - playerWidth gives that bound.
C2_SnapsToBound ==
    (step.dir # 0 /\ 0 <= step.x_before /\ step.x_before <= RightBound) =>
        /\ step.x_before + step.dir < 0 => game.player.x = 0
        /\ step.x_before + step.dir > RightBound => game.player.x = RightBound

\* C3: in one step a bullet kills at most one alien, and the alien scan for
\* that bullet stops at the first hit (no alien is tested after it).
C3_OneKillScanStops ==
    /\ step.max_kills <= 1
    /\ step.after_hit = 0

\* C4: the bullet count stays within 0..GAME_MAX_BULLETS, no removal runs on
\* an empty array (the count never wraps), and the active slots are slots of
\* the array.
C4_CountInRange ==
    /\ step.ub # "bullets"
    /\ 0 <= game.num_bullets
    /\ game.num_bullets <= GAME_MAX_BULLETS
    /\ ActiveSlots \subseteq DOMAIN game.bullets

\* C4 witness: the array is full again after an iteration that removed a
\* bullet by a hit and spawned one.
C4_FullAfterRemoval ==
    /\ game.num_bullets = GAME_MAX_BULLETS
    /\ step.hits > 0
    /\ step.spawned = 1

\* C5: every active bullet has bulletSpriteHeight <= y < boardHeight.
C5_BulletsInsideBoard ==
    \A bi \in ActiveSlots :
        /\ bullet_sprite.height <= game.bullets[bi].y
        /\ game.bullets[bi].y < game.height

\* C5 witness: an iteration removed a bullet by the bounds and bullets remain.
C5_RemovedByBounds ==
    /\ step.oob > 0
    /\ game.num_bullets > 0

\* C6: a dead alien's death sprite is drawn in each of the first 10
\* iterations after the one that killed it and in no later one: after k
\* iterations it was drawn min(k, 10) times and its counter is 10 - min(k, 10).
C6_DeathSpriteTenFrames ==
    \A ai \in Aliens :
        IF IsDead(ai)
        THEN /\ death_hist[ai].draws = Least(death_hist[ai].frames, 10)
             /\ death_counters[ai] = 10 - Least(death_hist[ai].frames, 10)
        ELSE death_hist[ai].draws = 0

\* C6 witness: an alien dead for more than 10 iterations, drawn 10 times.
C6_HiddenAfterTen ==
    \E ai \in Aliens :
        /\ IsDead(ai)
        /\ death_hist[ai].frames > 10
        /\ death_hist[ai].draws = 10
        /\ death_counters[ai] = 0

\* C7: a dead alien stays dead in every step, and there stay 60 aliens and
\* as many death counters.
C7_DeadIsAbsorbing ==
    [][/\ \A ai \in Aliens : IsDead(ai) => game'.aliens[ai].type = ALIEN_DEAD
       /\ game'.num_aliens = 60
       /\ DOMAIN game'.aliens = Aliens
       /\ DOMAIN death_counters' = Aliens]_vars

\* C7 witness: an alien that has been dead through several iterations.
C7_LongDead ==
    \E ai \in Aliens : IsDead(ai) /\ death_hist[ai].frames >= 2

\* C8: the hit loop tests no dead alien; bullets leave the array only by the
\* bounds or by a hit, and every hit of an iteration is on an alien that was
\* not dead: the hits are as many as the aliens the iteration killed.
C8_HitsOnlyLiveAliens ==
    /\ step.ub # "animation"
    /\ step.hits = Cardinality(NewlyDead)
    /\ game.num_bullets =
         step.count_before - step.oob - step.hits + step.spawned

\* C8 witness: an active bullet, moved at least once, whose rectangle overlaps
\* the death sprite's rectangle of a dead alien.
C8_BulletOverDeadAlien ==
    \E bi \in ActiveSlots, ai \in Aliens :
        /\ IsDead(ai)
        /\ sprite_overlap_check(bullet_sprite, game.bullets[bi].x,
                                game.bullets[bi].y, alien_death_sprite,
                                game.aliens[ai].x, game.aliens[ai].y)

\* A step of the model is an iteration of the loop exactly when the
\* animations advance.
IsFrameStep == alien_animation' # alien_animation

\* C9: an iteration that begins below capacity spawns as many bullets as fire
\* presses were delivered since the iteration before.
C9_OneBulletPerPress ==
    [][(IsFrameStep /\ game.num_bullets < GAME_MAX_BULLETS) =>
           step'.spawned = polled.presses]_vars

\* C9, amended: an iteration spawns one bullet if a release of the fire key
\* was delivered since the iteration before and the count its fire phase
\* finds is below capacity, and none otherwise.
C9_OneBulletPerStepWithRelease ==
    [][IsFrameStep =>
           step'.spawned =
               IF polled.released /\ step'.count_at_fire < GAME_MAX_BULLETS
               THEN 1 ELSE 0]_vars

\* C9 witness: an iteration spawned a bullet into the last free slot while
\* the fire key is held again (a release and a press came before it).
C9_SpawnedIntoLastSlot ==
    /\ step.spawned = 1
    /\ step.count_at_fire = GAME_MAX_BULLETS - 1
    /\ "SPACE" \in key_down
    /\ polled.presses = 0

\* C10: after every key event move_dir is (1 if RIGHT is held else 0) -
\* (1 if LEFT is held else 0).
C10_DirectionFromHeldKeys ==
    move_dir = (IF "RIGHT" \in key_down THEN 1 ELSE 0)
               - (IF "LEFT" \in key_down THEN 1 ELSE 0)

\* C10 witness: both keys held after the player has moved, the direction 0.
C10_BothHeld ==
    /\ {"LEFT", "RIGHT"} \subseteq key_down
    /\ move_dir = 0
    /\ game.player.x # game.width \div 2

\* A quit signal has been delivered: Escape was pressed or the window's close
\* was requested.
QuitSignalled == window_should_close \/ ~game_running

\* C11: once a quit signal is delivered it stays delivered and no further
\* iteration runs: nothing is drawn or simulated, and game (player, aliens,
\* bullets), the death counters and the animation clocks keep their values.
C11_QuitEndsLoop ==
    [][QuitSignalled =>
           /\ window_should_close' \/ ~game_running'
           /\ UNCHANGED <<game, death_counters, alien_animation, death_hist,
                          step>>]_vars

\* C11 witness: the loop was left on Escape after the player had moved, and
\* a move key is still held.
C11_LeftLoopAfterPlay ==
    /\ pc = "done"
    /\ ~game_running
    /\ game.player.x # game.width \div 2
    /\ move_dir # 0

\* The y a bullet is spawned with, and its dir.
InitialBulletY == game.player.y + player_sprite.height
BulletSpeed == 2

\* C12: after a single fire whose bullet overlaps no alive alien, the bullet
\* array is empty after N = (boardHeight - initialBulletY) / bulletSpeed
\* iterations following the spawn: no bullet is active at age N.
C12_EmptyAfterQuotient ==
    \A bi \in ActiveSlots :
        bullet_age[bi] < (game.height - InitialBulletY) \div BulletSpeed

\* C12, amended: the bullet is at initialBulletY + bulletSpeed * age while
\* active, and the array is empty after the quotient rounded up: no bullet
\* is active at age (boardHeight - initialBulletY + bulletSpeed - 1) /
\* bulletSpeed.
C12_EmptyAfterQuotientRoundedUp ==
    \A bi \in ActiveSlots :
        /\ game.bullets[bi].y = InitialBulletY + BulletSpeed * bullet_age[bi]
        /\ bullet_age[bi] <
             (game.height - InitialBulletY + BulletSpeed - 1) \div BulletSpeed

\* C12 witness: the array is empty after an iteration removed, by the bounds,
\* the one bullet that was in flight, and every alien is alive.
C12_FlightEnded ==
    /\ step.count_before = 1
    /\ step.oob = 1
    /\ game.num_bullets = 0
    /\ \A ai \in Aliens : ~IsDead(ai)

\* Whether a size_t held by its representative is below 2^63, so that sums
\* with the small offsets of a sprite are the sums of the numbers.
IsSmall(v) == v >= 0

\* Whether pixel (px, py) is the destination (x + col, y + height - 1 - row)
\* of an opaque cell of the sprite of the call.
IsDestination(px, py) ==
    /\ IsSmall(call.x) /\ IsSmall(call.y)
    /\ \E col \in 0..(call.sprite.width - 1),
          row \in 0..(call.sprite.height - 1) :
          /\ call.sprite.data[row * call.sprite.width + col]
          /\ px = call.x + col
          /\ py = call.y + call.sprite.height - 1 - row

\* C13: buffer_sprite_draw sets to color exactly the in-bounds destinations
\* of the opaque cells, leaves every other pixel as it was (clear), and
\* writes no index outside the array; a coordinate that wraps is written
\* nowhere.
C13_DrawsExactlyClipped ==
    (call.op = "draw" /\ call.returned) =>
        /\ ~call.outside
        /\ \A px \in 0..(call.buffer.width - 1),
              py \in 0..(call.buffer.height - 1) :
              call.buffer.data[py * call.buffer.width + px] =
                  IF IsDestination(px, py) THEN call.color ELSE "clear"

\* The half-open interval [from, from + length).
Interval(from, length) == from..(from + length - 1)

\* Whether the rectangles of the call have a point in common.
RectanglesIntersect ==
    /\ Interval(call.x_a, call.sp_a.width)
          \cap Interval(call.x_b, call.sp_b.width) # {}
    /\ Interval(call.y_a, call.sp_a.height)
          \cap Interval(call.y_b, call.sp_b.height) # {}

\* The sprite with every cell of its mask opaque, or every cell transparent.
WithMask(sprite, opaque) ==
    [sprite EXCEPT !.data = [i \in DOMAIN sprite.data |-> opaque]]

\* C14: sprite_overlap_check returns true iff the half-open rectangles of
\* the two sprites have a point in common (rectangles that only touch have
\* none), and with any other masks of the same sizes it returns the same.
C14_OverlapIffRectanglesIntersect ==
    (call.op = "overlap" /\ call.returned) =>
        /\ call.result = RectanglesIntersect
        /\ \A opaque_a, opaque_b \in BOOLEAN :
              sprite_overlap_check(WithMask(call.sp_a, opaque_a), call.x_a,
                                   call.y_a, WithMask(call.sp_b, opaque_b),
                                   call.x_b, call.y_b) = call.result

\* C14 witness: the call returned false for two rectangles that touch along
\* an edge: a ends in x where b begins, and they share rows.
C14_TouchingEdge ==
    /\ call.op = "overlap" /\ call.returned
    /\ call.x_a + call.sp_a.width = call.x_b
    /\ call.y_a = call.y_b
    /\ ~call.result

\* The row of alien ai counted from the bottom of the board: the rows of
\* aliens below it.
RowFromBottom(ai) ==
    Cardinality({game.aliens[o].y : o \in Aliens}
                    \cap 0..(game.aliens[ai].y - 1))

\* C15: at game start all 60 aliens are alive and the alien in row r from
\* the bottom has type r / 2 + 1.
C15_TypeCountedUpFromBottom ==
    pc = "start" =>
        /\ game.num_aliens = 60
        /\ \A ai \in Aliens :
              /\ ~IsDead(ai)
              /\ game.aliens[ai].type = RowFromBottom(ai) \div 2 + 1

\* C15, amended: at game start all 60 aliens are alive and the alien in row r
\* from the bottom has type (5 - r) / 2 + 1: the types are 3, 3, 2, 2, 1
\* from the bottom row to the top row.
C15_TypeCountedDownFromBottom ==
    pc = "start" =>
        /\ game.num_aliens = 60
        /\ \A ai \in Aliens :
              /\ ~IsDead(ai)
              /\ game.aliens[ai].type = (5 - RowFromBottom(ai)) \div 2 + 1

\* C15 witness: the game at its start, the grid of 5 rows of 12 built.
C15_GridBuilt ==
    /\ pc = "start"
    /\ Cardinality({game.aliens[ai].y : ai \in Aliens}) = 5
    /\ \A ai \in Aliens :
          Cardinality({o \in Aliens :
                          game.aliens[o].y = game.aliens[ai].y}) = 12

\* C16: every bullet active at the start of an iteration is removed in it or
\* moved by its dir exactly once: the bullet loop leaves no bullet in the
\* array that it did not move, and none that it moved more than once.
C16_EveryBulletMovesOnce ==
    /\ step.unmoved = 0
    /\ step.moved_again = 0

\* C17: an iteration spawns at most one bullet, and only if a fire event
\* (a release of the fire key) was registered since the iteration before;
\* the fire flag is false after it whether or not it spawned a bullet, so a
\* fire found at capacity is dropped, and a key held produces no bullet.
C17_FireConsumedOnce ==
    [][IsFrameStep =>
           /\ step'.spawned \in {0, 1}
           /\ step'.spawned = 1 => (fire_pressed /\ polled.released)
           /\ ~fire_pressed'
           /\ step'.count_at_fire = GAME_MAX_BULLETS => step'.spawned = 0]_vars

\* C17 witness: the fire key has been held since before the last iteration,
\* which had room in the array and spawned nothing; a bullet spawned earlier
\* is in flight.
C17_KeyHeldNoBullet ==
    /\ "SPACE" \in key_down
    /\ polled.presses = 0
    /\ ~fire_pressed
    /\ step.spawned = 0
    /\ step.count_at_fire < GAME_MAX_BULLETS
    /\ game.num_bullets > 0

\* C18: a bullet spawned by an iteration is in the slot the count pointed at,
\* at x = player.x + playerSpriteWidth / 2 for the player's x after the
\* iteration's move, y = player.y + playerSpriteHeight, dir = 2, and the
\* iteration leaves it there, active and unmoved.
C18_SpawnedAtMovedPlayer ==
    [][(IsFrameStep /\ step'.spawned = 1) =>
           /\ game'.num_bullets = step'.count_at_fire + 1
           /\ game'.bullets[step'.count_at_fire] =
                 [x |-> game'.player.x + player_sprite.width \div 2,
                  y |-> game'.player.y + player_sprite.height,
                  dir |-> 2]
           /\ game'.player.x = PlayerMove(game, 2 * move_dir)
           /\ bullet_age'[step'.count_at_fire] = 0]_vars

\* C18 witness: the last iteration moved the player and spawned a bullet
\* above where the player stands now, while an older bullet is in flight
\* above where the player stood.
C18_SpawnedAfterMove ==
    /\ step.spawned = 1
    /\ step.dir # 0
    /\ game.player.x # step.x_before
    /\ game.num_bullets = 2
    /\ game.bullets[1].x = game.player.x + player_sprite.width \div 2
    /\ game.bullets[0].x # game.bullets[1].x

\* The length of an animation's loop in ticks.
LoopTicks(a) == a.num_frames * a.frame_duration

\* C19: every animation clock satisfies 0 <= time < num_frames *
\* frame_duration = 20, so the frame index time / frame_duration, read for
\* every alive alien when it is drawn and when it is collision-tested, is 0
\* or 1; and every iteration advances every clock by 1, wrapping 19 to 0.
C19_ClockInsideLoop ==
    /\ [](/\ \A i \in DOMAIN alien_animation :
               /\ LoopTicks(alien_animation[i]) = 20
               /\ 0 <= alien_animation[i].time
               /\ alien_animation[i].time < LoopTicks(alien_animation[i])
           /\ \A ai \in Aliens :
               ~IsDead(ai) => DrawnFrame(ai) \in {0, 1})
    /\ [][IsFrameStep =>
             \A i \in DOMAIN alien_animation :
                 alien_animation'[i].time =
                     IF alien_animation[i].time = 19
                     THEN 0
                     ELSE alien_animation[i].time + 1]_vars

\* C19 witness: the last iteration wrapped the clocks to 0 and then tested a
\* bullet in flight beside the grid against the aliens' frame 0.
C19_WrappedInFlight ==
    /\ \A i \in DOMAIN alien_animation : alien_animation[i].time = 0
    /\ game.num_bullets = 1
    /\ bullet_age[0] > 0
    /\ game.bullets[0].y >= game.aliens[0].y
    /\ game.bullets[0].y < game.aliens[59].y

\* C20: a step changes a death counter only by the decay of an iteration,
\* which takes exactly 1 from the counter of an alien that was dead before
\* the iteration and whose counter is not 0; counters stay within 0..10 and
\* an alive alien's counter is 10, so a counter below 10 is a dead alien's.
C20_DecaysOnlyWhileDead ==
    /\ [](\A ai \in Aliens :
               /\ death_counters[ai] \in 0..10
               /\ death_counters[ai] < 10 => IsDead(ai)
               /\ ~IsDead(ai) => death_counters[ai] = 10)
    /\ [][\A ai \in Aliens :
               death_counters'[ai] =
                   IF IsFrameStep /\ IsDead(ai) /\ death_counters[ai] # 0
                   THEN death_counters[ai] - 1
                   ELSE death_counters[ai]]_vars

\* C20 witness: one dead alien's counter has stayed at 0 through an
\* iteration, another's is still running down, and an alive alien's is 10.
C20_SpentRunningAndUntouched ==
    /\ \E ai \in Aliens :
           /\ IsDead(ai)
           /\ death_counters[ai] = 0
           /\ death_hist[ai].frames > 10
    /\ \E ai \in Aliens :
           /\ IsDead(ai)
           /\ death_counters[ai] \in 1..9
    /\ \E ai \in Aliens :
           /\ ~IsDead(ai)
           /\ death_counters[ai] = 10

\* A bullet is followed: it is in the active part of the array.
Followed == \E bi \in DOMAIN watched : watched[bi]

\* C21: while the loop keeps iterating, a bullet followed from any moment of
\* its flight, through every slot the removals of other bullets move it to
\* and every move they make it skip, is eventually removed.
C21_EveryBulletRemoved == Followed ~> ~Followed

\* C21 witness: a bullet followed from the iteration that spawned it was
\* left unmoved by the next iteration, which removed another bullet by a hit
\* and copied the followed one into its slot.
C21_FollowedAndDelayed ==
    \E bi \in ActiveSlots :
        /\ watched[bi]
        /\ bullet_age[bi] = 1
        /\ game.bullets[bi].y = InitialBulletY
        /\ step.hits > 0

====
